---- MODULE Spec2Model ----
(***************************************************************************)
(* Process supervision engine of Kweebec-Manager                            *)
(* (backend/src/services/process_manager.rs, backend/src/api/console.rs).   *)
(*                                                                          *)
(* The Process Table is a tokio RwLock<HashMap<String, ServerProcess>>.     *)
(* Async operations (start, stop, kill, register_installing, remove) take   *)
(* it with write().await; the synchronous queries is_running and            *)
(* subscribe_logs use try_write() / try_read(), which fail at once when     *)
(* the lock is not available; the metrics loop holds it shared for a tick.  *)
(***************************************************************************)
EXTENDS Integers, Sequences, FiniteSets, TLC

\* ---------------------------------------------------------------- bounds
NumClients == 2      \* callers that can be inside start, stop or restart at once
NumIds == 2          \* server identifiers
MaxOrphans == 1      \* live processes of one id whose handle has been dropped
MaxJobs == 1         \* installation jobs of one id running at once

Clients == 1..NumClients
Ids == 1..NumIds

\* ---------------------------------------------------------------- state
VARIABLES
    processes,   \* the table: id -> record, NoRec when the id has no entry
    orphans,     \* id -> live OS processes spawned for it that no record holds
    wlock,       \* client holding the table exclusively, 0 when none
    samplerIn,   \* the metrics loop holds the table shared
    pc,          \* client -> position in its current call
    op,          \* client -> operation it called
    arg,         \* client -> server id it called it on
    ev,          \* what the last step returned to its caller, NoEv for none
    race,        \* observer of one pair of concurrent start calls
    jobs,        \* id -> installation jobs that have registered and not yet removed
    \* -- the log channels of the records created for one id
    tracked,     \* channel of the record the table holds for the id, 0 for none
    chan,        \* the channels created so far, in order of creation
    file,        \* channel -> what its reader thread has appended to the log file
    rx,          \* the receivers subscribe_logs has handed out, in order
    \* -- the stdout scanner of one record
    players,     \* the record's set of online players
    scanned,     \* lines the scanner has processed
    seen,        \* observer of a join line and of the leave line that follows it
    auth_required,  \* the record's pending-authentication flag
    auth_file,   \* working_dir/auth.enc exists
    pool,        \* the manager was built with a database pool (self.pool is Some)
    log_file,    \* console.log: "open", "none" (not opened), "failing" (writes fail)
    worker,      \* reader thread -> "reading", "ended" or "panicked"
    stream,      \* reader thread -> its pipe is "open" or at "eof"
    did,         \* what the last step of a reader thread did, in order
    \* -- the metrics loop and the caches of the records
    cache,       \* id -> last_cpu, last_memory, last_disk of the record of id
    tick_count,  \* the loop's tick counter, modulo DiskPeriod
    got_metrics, \* what the last get_metrics_data returned, and for which id
    metrics_msg, \* id -> what the last tick did with the record and published
    \* -- the installation jobs of one id
    job          \* job -> its position, the messages it published, its removes

tableVars == <<processes, orphans, wlock, samplerIn, pc, op, arg, ev, race, jobs>>
logVars == <<tracked, chan, file, rx>>
scanVars == <<players, scanned, seen, auth_required, auth_file, pool, log_file, worker, stream, did>>
metricVars == <<cache, tick_count, got_metrics, metrics_msg>>
installVars == <<job>>
vars == <<tableVars, logVars, scanVars, metricVars, installVars>>

\* A record (ServerProcess): child is child.is_some(), alive the state of the
\* OS process the handle owns, stdin the last line written to its input.
NoRec == [child |-> FALSE, alive |-> FALSE, stdin |-> "none", present |-> FALSE]
Virtual == [child |-> FALSE, alive |-> FALSE, stdin |-> "none", present |-> TRUE]
Spawned == [child |-> TRUE, alive |-> TRUE, stdin |-> "none", present |-> TRUE]

NoEv == [c |-> 0, fn |-> "none", top |-> "none", id |-> 0, res |-> "none",
         forced |-> FALSE, attached |-> FALSE]
NoRace == [on |-> FALSE, id |-> 0, pair |-> {}, n |-> 0, out |-> <<>>]

\* tokio RwLock: write access needs the lock wholly free, read access no writer.
WriteFreeAmongWriters == ~samplerIn
WriteFree == wlock = 0 /\ ~samplerIn
ReadFree == wlock = 0

\* Child::try_wait: Ok(None) for a live child; for a child that is gone,
\* Ok(Some(status)) or, when its status cannot be collected, Err.
try_wait_unchecked(r) == {"None"}
try_wait(r) == IF r.alive THEN {"None"} ELSE {"Some", "Err"}

\* Child::kill: the OS may deny the signal to a live child.
child_kill(r) == IF r.alive THEN {"ok", "err"} ELSE {"ok"}

TableInit ==
    /\ processes = [i \in Ids |-> NoRec]
    /\ orphans = [i \in Ids |-> 0]
    /\ wlock = 0
    /\ samplerIn = FALSE
    /\ pc = [c \in Clients |-> "idle"]
    /\ op = [c \in Clients |-> "none"]
    /\ arg = [c \in Clients |-> 1]
    /\ ev = NoEv
    /\ race = NoRace
    /\ jobs = [i \in Ids |-> 0]

LogInit ==
    /\ tracked = 0
    /\ chan = <<>>
    /\ file = <<>>
    /\ rx = <<>>

NoSeen == [kind |-> "none", name |-> <<>>, before |-> {}]

\* The two reader threads of a record, and the observer of their last step:
\* by the thread, at "line", "invalid" or "eof", hits the matchers whose
\* pattern the line matches, steps the effects in the order they were made.
Threads == {"out", "err"}
NoStep == [by |-> "none", at |-> "none", hits |-> {}, steps |-> <<>>]

ScanInit ==
    /\ players = {}
    /\ scanned = 0
    /\ seen = NoSeen
    /\ auth_required = FALSE
    /\ auth_file = FALSE
    /\ worker = [t \in Threads |-> "reading"]
    /\ stream = [t \in Threads |-> "open"]
    /\ did = NoStep

\* The caches of a new record: last_cpu 0.0, last_memory 0, last_disk 0.
Zero == [cpu |-> 0, mem |-> 0, disk |-> 0]

\* What a tick did with a record: st is "sent" when it published a metrics
\* message, with its cpu and memory fields and, when has_disk, disk_bytes;
\* "skipped" when it passed the record over; "none" before its first tick.
NoMsg == [st |-> "none", cpu |-> 0, mem |-> 0, disk |-> 0, has_disk |-> FALSE]

MetricsInit ==
    /\ cache = [i \in Ids |-> Zero]
    /\ tick_count = 0
    /\ got_metrics = [id |-> 0, val |-> Zero]
    /\ metrics_msg = [i \in Ids |-> NoMsg]

\* An installation job as spawn_hytale_installation creates it.
NumInstalls == 2     \* installation jobs spawned for the id
Installers == 1..NumInstalls
NewJob == [pc |-> "register", sent |-> 0, removed |-> 0]

InstallInit == job = [j \in Installers |-> NewJob]

Init ==
    /\ TableInit /\ LogInit /\ ScanInit /\ MetricsInit /\ InstallInit
    /\ pool = FALSE /\ log_file = "open"

\* ------------------------------------------------------------ the callers
\* Function fn, run on id i within a call of `top` by client c (0: a caller
\* that is never inside a longer call), returns r.  f: it has invoked
\* child.kill(); a: the receiver it hands out is attached to the record.
Returned(c, fn, top, i, r, f, a) ==
    [c |-> c, fn |-> fn, top |-> top, id |-> i, res |-> r, forced |-> f, attached |-> a]

\* The call of c is over.
Idle(c) ==
    /\ pc' = [pc EXCEPT ![c] = "idle"]
    /\ op' = [op EXCEPT ![c] = "none"]
    /\ arg' = [arg EXCEPT ![c] = 1]

\* c is in its call of o on i, at position p.
Goes(c, o, i, p) ==
    /\ pc' = [pc EXCEPT ![c] = p]
    /\ op' = [op EXCEPT ![c] = o]
    /\ arg' = [arg EXCEPT ![c] = i]

\* The caller takes the returned value.
Ack ==
    /\ ev # NoEv
    /\ ev' = NoEv
    /\ UNCHANGED <<processes, orphans, wlock, samplerIn, pc, op, arg, race>>
    /\ UNCHANGED <<jobs, logVars, scanVars, metricVars, installVars>>

\* Dropping a record drops its Child handle, which neither kills nor reaps
\* the process: a live one goes on running without a handle.
Dropped(i) == IF processes[i].child /\ processes[i].alive THEN 1 ELSE 0

\* ------------------------------------------------------- observer of a race
\* The observer follows one pair of start calls that are in progress together
\* on an id with no record.  It counts the processes the pair spawns, keeps
\* what the two calls return, and gives up when anything else changes that
\* id's entry.
InStart(c, i) == op[c] = "start" /\ arg[c] = i /\ pc[c] \in {"wait", "start_spawn"}

RaceStep(c, spawned) ==
    race' = IF ~race.on THEN race
            ELSE IF c \in race.pair /\ pc[c] = "idle" THEN NoRace
            ELSE IF c \in race.pair /\ op[c] = "start"
                 THEN [race EXCEPT !.n = IF spawned THEN @ + 1 ELSE @,
                                   !.out = IF pc'[c] = "idle"
                                              THEN Append(@, ev'.res) ELSE @]
                 ELSE IF processes'[race.id] # processes[race.id] THEN NoRace
                      ELSE race

ArmRace(a, b, i) ==
    /\ ev = NoEv
    /\ ~race.on
    /\ a # b
    /\ InStart(a, i) /\ InStart(b, i)
    /\ ~processes[i].present
    /\ race' = [on |-> TRUE, id |-> i, pair |-> {a, b}, n |-> 0, out |-> <<>>]
    /\ UNCHANGED <<processes, orphans, wlock, samplerIn, pc, op, arg, ev>>
    /\ UNCHANGED <<jobs, logVars, scanVars, metricVars, installVars>>

\* c calls start or stop while the table is taken: it waits in write().await.
\* (A call made while the table is free acquires it at once.)
CallWait(c, o, i) ==
    /\ ev = NoEv
    /\ pc[c] = "idle"
    /\ ~WriteFree
    /\ Goes(c, o, i, "wait")
    /\ race' = IF race.on /\ c \in race.pair THEN NoRace ELSE race
    /\ UNCHANGED <<processes, orphans, wlock, samplerIn, ev>>
    /\ UNCHANGED <<jobs, logVars, scanVars, metricVars, installVars>>

\* c is about to run operation o on id i: it calls it now, or has waited for it.
At(c, o, i) == pc[c] = "idle" \/ (pc[c] = "wait" /\ op[c] = o /\ arg[c] = i)

TopOf(c, o) == IF pc[c] = "idle" THEN o ELSE op[c]

\* ------------------------------------------------------------------ start
\* write().await, then the contains_key check.
StartAcquire(c, i) ==
    /\ ev = NoEv
    /\ At(c, "start", i) \/ (pc[c] = "r_start" /\ arg[c] = i)
    /\ WriteFree
    /\ IF processes[i].present
          THEN /\ ev' = Returned(c, "start", TopOf(c, "start"), i, "AlreadyActive", FALSE, FALSE)
               /\ Idle(c)
               /\ UNCHANGED wlock
          ELSE /\ wlock' = c
               /\ Goes(c, TopOf(c, "start"), i, "start_spawn")
               /\ UNCHANGED ev
    /\ UNCHANGED <<processes, orphans, samplerIn>>
    /\ RaceStep(c, FALSE)
    /\ UNCHANGED <<jobs, logVars, scanVars, metricVars, installVars>>

\* cmd.spawn()?, the reader threads, the insert; the guard is dropped on return.
\* HashMap::insert replaces (and drops) a record already there.
StartSpawnInsertingFirst(c) ==
    /\ ev = NoEv
    /\ pc[c] = "start_spawn"
    /\ wlock' = 0
    /\ Idle(c)
    /\ LET i == arg[c] IN
       \E spawned \in BOOLEAN :
          /\ processes' = [processes EXCEPT ![i] = IF spawned THEN Spawned ELSE Virtual]
          /\ ev' = Returned(c, "start", op[c], i,
                            IF spawned THEN "ok" ELSE "SpawnFailed", FALSE, FALSE)
          /\ RaceStep(c, spawned)
    /\ UNCHANGED <<orphans, samplerIn>>
    /\ UNCHANGED <<jobs, logVars, scanVars, metricVars, installVars>>

StartSpawn(c) ==
    /\ ev = NoEv
    /\ pc[c] = "start_spawn"
    /\ wlock' = 0
    /\ Idle(c)
    /\ LET i == arg[c] IN
       \E spawned \in BOOLEAN :
          /\ IF spawned
                THEN /\ orphans[i] + Dropped(i) <= MaxOrphans
                     /\ orphans' = [orphans EXCEPT ![i] = @ + Dropped(i)]
                     /\ processes' = [processes EXCEPT ![i] = Spawned]
                     /\ ev' = Returned(c, "start", op[c], i, "ok", FALSE, FALSE)
                ELSE /\ ev' = Returned(c, "start", op[c], i, "SpawnFailed", FALSE, FALSE)
                     /\ UNCHANGED <<processes, orphans>>
          /\ RaceStep(c, spawned)
    /\ UNCHANGED samplerIn
    /\ UNCHANGED <<jobs, logVars, scanVars, metricVars, installVars>>

\* ------------------------------------------------------------------- stop
\* stop has returned Ok: restart goes on to start, stop itself returns.
StopOk(c, top, i, f) ==
    /\ ev' = Returned(c, "stop", top, i, "ok", f, FALSE)
    /\ IF top = "restart" THEN Goes(c, top, i, "r_start") ELSE Idle(c)

StopErrReportedOk(c, top, i, e, f) ==
    /\ ev' = Returned(c, "stop", top, i, "ok", f, FALSE)
    /\ Idle(c)

\* stop has returned Err(e): restart returns it too (the `?`).
StopErr(c, top, i, e, f) ==
    /\ ev' = Returned(c, "stop", top, i, e, f, FALSE)
    /\ Idle(c)

\* write().await, get_mut, the "/shutdown" line; then the sleep begins with
\* the write guard still held.
StopAcquire(c, i) ==
    /\ ev = NoEv
    /\ At(c, "stop", i) \/ (pc[c] = "r_stop" /\ arg[c] = i)
    /\ WriteFree
    /\ LET top == TopOf(c, "stop") IN
       IF ~processes[i].present
          THEN StopErr(c, top, i, "NotRunning", FALSE) /\ UNCHANGED <<processes, wlock>>
          ELSE IF ~processes[i].child
                  THEN /\ processes' = [processes EXCEPT ![i] = NoRec]
                       /\ StopOk(c, top, i, FALSE)
                       /\ UNCHANGED wlock
                  ELSE /\ processes' = [processes EXCEPT ![i].stdin = "/shutdown"]
                       /\ wlock' = c
                       /\ Goes(c, top, i, "stop_sleep")
                       /\ UNCHANGED ev
    /\ UNCHANGED <<orphans, samplerIn>>
    /\ RaceStep(c, FALSE)
    /\ UNCHANGED <<jobs, logVars, scanVars, metricVars, installVars>>

\* The sleep is over: try_wait()?, kill()? when still running, remove.
StopWake(c) ==
    /\ ev = NoEv
    /\ pc[c] = "stop_sleep"
    /\ wlock' = 0
    /\ LET i == arg[c] IN
       \E w \in try_wait(processes[i]) :
          CASE w = "None" ->
                  \E s \in child_kill(processes[i]) :
                     IF s = "ok"
                        THEN /\ processes' = [processes EXCEPT ![i] = NoRec]
                             /\ StopOk(c, op[c], i, TRUE)
                        ELSE /\ StopErr(c, op[c], i, "KillFailed", TRUE)
                             /\ UNCHANGED processes
            [] w = "Some" ->
                  /\ processes' = [processes EXCEPT ![i] = NoRec]
                  /\ StopOk(c, op[c], i, FALSE)
            [] w = "Err" ->
                  /\ StopErr(c, op[c], i, "WaitFailed", FALSE)
                  /\ UNCHANGED processes
    /\ UNCHANGED <<orphans, samplerIn>>
    /\ RaceStep(c, FALSE)
    /\ UNCHANGED <<jobs, logVars, scanVars, metricVars, installVars>>

\* ------------------------------------------------------------------- kill
KillLeavingRecord(i) ==
    /\ ev = NoEv
    /\ WriteFree
    /\ ev' = Returned(0, "kill", "kill", i,
                      IF processes[i].present THEN "ok" ELSE "NotRunning",
                      processes[i].child, FALSE)
    /\ UNCHANGED <<processes, orphans, wlock, samplerIn, pc, op, arg>>
    /\ RaceStep(0, FALSE)
    /\ UNCHANGED <<jobs, logVars, scanVars, metricVars, installVars>>

Kill(i) ==
    /\ ev = NoEv
    /\ WriteFree
    /\ IF ~processes[i].present
          THEN /\ ev' = Returned(0, "kill", "kill", i, "NotRunning", FALSE, FALSE)
               /\ UNCHANGED processes
          ELSE IF ~processes[i].child
                  THEN /\ processes' = [processes EXCEPT ![i] = NoRec]
                       /\ ev' = Returned(0, "kill", "kill", i, "ok", FALSE, FALSE)
                  ELSE \E s \in child_kill(processes[i]) :
                          IF s = "ok"
                             THEN /\ processes' = [processes EXCEPT ![i] = NoRec]
                                  /\ ev' = Returned(0, "kill", "kill", i, "ok", TRUE, FALSE)
                             ELSE /\ ev' = Returned(0, "kill", "kill", i, "KillFailed", TRUE, FALSE)
                                  /\ UNCHANGED processes
    /\ UNCHANGED <<orphans, wlock, samplerIn, pc, op, arg>>
    /\ RaceStep(0, FALSE)
    /\ UNCHANGED <<jobs, logVars, scanVars, metricVars, installVars>>

\* ----------------------------------------------------------- send_command
\* writeln!(stdin, "{}", command): the write fails when the pipe is closed.
write_stdin(r) == {"ok", "err"}

SendCommand(i) ==
    /\ ev = NoEv
    /\ WriteFree
    /\ IF ~processes[i].present
          THEN /\ ev' = Returned(0, "send_command", "send_command", i, "NotRunning", FALSE, FALSE)
               /\ UNCHANGED processes
          ELSE IF ~processes[i].child
                  THEN /\ ev' = Returned(0, "send_command", "send_command", i, "ok", FALSE, FALSE)
                       /\ UNCHANGED processes
                  ELSE \E w \in write_stdin(processes[i]) :
                          IF w = "ok"
                             THEN /\ processes' = [processes EXCEPT ![i].stdin = "command"]
                                  /\ ev' = Returned(0, "send_command", "send_command", i,
                                                    "ok", FALSE, FALSE)
                             ELSE /\ ev' = Returned(0, "send_command", "send_command", i,
                                                    "WriteFailed", FALSE, FALSE)
                                  /\ UNCHANGED processes
    /\ UNCHANGED <<orphans, wlock, samplerIn, pc, op, arg>>
    /\ RaceStep(0, FALSE)
    /\ UNCHANGED <<jobs, logVars, scanVars, metricVars, installVars>>

\* ------------------------------------------------------------- is_running
is_running_by_presence(i, ret) == ret = processes[i].present /\ UNCHANGED processes

\* The body of is_running(i) returning ret; it sets processes'.
is_running(i, ret) ==
    IF WriteFree /\ processes[i].present
       THEN IF processes[i].child
               THEN \E w \in try_wait(processes[i]) :
                       CASE w = "None" -> ret = TRUE /\ UNCHANGED processes
                         [] w = "Some" ->
                               /\ ret = FALSE
                               /\ processes' = [processes EXCEPT ![i] = NoRec]
                         [] w = "Err" -> ret = FALSE /\ UNCHANGED processes
               ELSE ret = TRUE /\ UNCHANGED processes
       ELSE ret = FALSE /\ UNCHANGED processes

Bool(b) == IF b THEN "true" ELSE "false"

IsRunning(i) ==
    /\ ev = NoEv
    /\ \E ret \in BOOLEAN :
          /\ is_running(i, ret)
          /\ ev' = Returned(0, "is_running", "is_running", i, Bool(ret), FALSE, FALSE)
    /\ UNCHANGED <<orphans, wlock, samplerIn, pc, op, arg>>
    /\ RaceStep(0, FALSE)
    /\ UNCHANGED <<jobs, logVars, scanVars, metricVars, installVars>>

\* ---------------------------------------------------------------- restart
\* if self.is_running(id) { self.stop(id).await?; }  self.start(..).await
Restart(c, i) ==
    /\ ev = NoEv
    /\ pc[c] = "idle"
    /\ \E ret \in BOOLEAN :
          /\ is_running(i, ret)
          /\ ev' = Returned(c, "is_running", "restart", i, Bool(ret), FALSE, FALSE)
          /\ Goes(c, "restart", i, IF ret THEN "r_stop" ELSE "r_start")
    /\ UNCHANGED <<orphans, wlock, samplerIn>>
    /\ RaceStep(c, FALSE)
    /\ UNCHANGED <<jobs, logVars, scanVars, metricVars, installVars>>

\* --------------------------------------------------------- subscribe_logs
SubscribeLogs(i) ==
    /\ ev = NoEv
    /\ ev' = IF ReadFree /\ processes[i].present
                THEN Returned(0, "subscribe_logs", "subscribe_logs", i, "rx", FALSE, TRUE)
                ELSE Returned(0, "subscribe_logs", "subscribe_logs", i, "rx", FALSE, FALSE)
    /\ UNCHANGED <<processes, orphans, wlock, samplerIn, pc, op, arg, race>>
    /\ UNCHANGED <<jobs, logVars, scanVars, metricVars, installVars>>

\* ------------------------------------------- register_installing / remove
\* Both are called by an installation job only (api/servers.rs): the job
\* begins with register_installing and gives up when that fails; otherwise it
\* runs its commands and ends, on failure or completion, with remove.
RegisterInstallingOver(i) ==
    /\ ev = NoEv
    /\ WriteFree
    /\ jobs[i] < MaxJobs
    /\ jobs' = [jobs EXCEPT ![i] = @ + 1]
    /\ orphans[i] + Dropped(i) <= MaxOrphans
    /\ orphans' = [orphans EXCEPT ![i] = @ + Dropped(i)]
    /\ processes' = [processes EXCEPT ![i] = Virtual]
    /\ ev' = Returned(0, "register_installing", "register_installing", i, "ok", FALSE, FALSE)
    /\ UNCHANGED <<wlock, samplerIn, pc, op, arg>>
    /\ RaceStep(0, FALSE)
    /\ UNCHANGED <<logVars, scanVars, metricVars, installVars>>

RegisterInstalling(i) ==
    /\ ev = NoEv
    /\ WriteFree
    /\ IF processes[i].present
          THEN /\ ev' = Returned(0, "register_installing", "register_installing", i,
                                 "AlreadyActive", FALSE, FALSE)
               /\ UNCHANGED <<processes, jobs>>
          ELSE /\ jobs[i] < MaxJobs
               /\ jobs' = [jobs EXCEPT ![i] = @ + 1]
               /\ processes' = [processes EXCEPT ![i] = Virtual]
               /\ ev' = Returned(0, "register_installing", "register_installing", i,
                                 "ok", FALSE, FALSE)
    /\ UNCHANGED <<orphans, wlock, samplerIn, pc, op, arg>>
    /\ RaceStep(0, FALSE)
    /\ UNCHANGED <<logVars, scanVars, metricVars, installVars>>

Remove(i) ==
    /\ ev = NoEv
    /\ jobs[i] > 0
    /\ jobs' = [jobs EXCEPT ![i] = @ - 1]
    /\ WriteFree
    /\ orphans[i] + Dropped(i) <= MaxOrphans
    /\ orphans' = [orphans EXCEPT ![i] = @ + Dropped(i)]
    /\ processes' = [processes EXCEPT ![i] = NoRec]
    /\ ev' = Returned(0, "remove", "remove", i, "ok", FALSE, FALSE)
    /\ UNCHANGED <<wlock, samplerIn, pc, op, arg>>
    /\ RaceStep(0, FALSE)
    /\ UNCHANGED <<logVars, scanVars, metricVars, installVars>>

\* ----------------------------------------------------------- environment
\* The OS process held by the record of i exits by itself.
Exit(i) ==
    /\ ev = NoEv
    /\ processes[i].child /\ processes[i].alive
    /\ processes' = [processes EXCEPT ![i].alive = FALSE]
    /\ UNCHANGED <<orphans, wlock, samplerIn, pc, op, arg, ev, race>>
    /\ UNCHANGED <<jobs, logVars, scanVars, metricVars, installVars>>

\* A process of i that no record holds exits by itself.
ExitOrphan(i) ==
    /\ ev = NoEv
    /\ orphans[i] > 0
    /\ orphans' = [orphans EXCEPT ![i] = @ - 1]
    /\ UNCHANGED <<processes, wlock, samplerIn, pc, op, arg, ev, race>>
    /\ UNCHANGED <<jobs, logVars, scanVars, metricVars, installVars>>

\* The metrics loop takes the table shared for the length of one tick.
SamplerEnter ==
    /\ ev = NoEv
    /\ ReadFree
    /\ ~samplerIn
    /\ samplerIn' = TRUE
    /\ UNCHANGED <<processes, orphans, wlock, pc, op, arg, ev, race>>
    /\ UNCHANGED <<jobs, logVars, scanVars, metricVars, installVars>>

SamplerLeave ==
    /\ ev = NoEv
    /\ samplerIn
    /\ samplerIn' = FALSE
    /\ UNCHANGED <<processes, orphans, wlock, pc, op, arg, ev, race>>
    /\ UNCHANGED <<jobs, logVars, scanVars, metricVars, installVars>>

Next ==
    \/ Ack
    \/ \E c \in Clients, o \in {"start", "stop"}, i \in Ids : CallWait(c, o, i)
    \/ \E c \in Clients, i \in Ids : StartAcquire(c, i)
    \/ \E c \in Clients : StartSpawn(c)
    \/ \E c \in Clients, i \in Ids : StopAcquire(c, i)
    \/ \E c \in Clients : StopWake(c)
    \/ \E i \in Ids : Kill(i)
    \/ \E i \in Ids : SendCommand(i)
    \/ \E i \in Ids : IsRunning(i)
    \/ \E c \in Clients, i \in Ids : Restart(c, i)
    \/ \E i \in Ids : SubscribeLogs(i)
    \/ \E i \in Ids : RegisterInstalling(i)
    \/ \E i \in Ids : Remove(i)
    \/ \E a \in Clients, b \in Clients, i \in Ids : ArmRace(a, b, i)
    \/ \E i \in Ids : Exit(i)
    \/ \E i \in Ids : ExitOrphan(i)
    \/ SamplerEnter
    \/ SamplerLeave

Spec == Init /\ [][Next]_vars

\* ============================================================ log channels
\* The records created one after another for one id, the broadcast channel
\* each of them carries, the stdout reader thread that publishes on it, and
\* the receivers subscribe_logs hands out for that id (api/console.rs).
Capacity == 3      \* stands for the 1000 of broadcast::channel(1000)
MaxChans == 2      \* records created for the id
MaxRx == 2         \* receivers handed out

\* tokio rounds the capacity asked for up to a power of two.
RECURSIVE PowerOfTwoFrom(_, _)
PowerOfTwoFrom(n, p) == IF p >= n THEN p ELSE PowerOfTwoFrom(n, 2 * p)
next_power_of_two(n) == PowerOfTwoFrom(n, 1)
BufCap == next_power_of_two(Capacity)

\* Lines a reader thread reads before the model stops following it.
MaxLines == BufCap + 1

\* Line n of a stream is message n; the other messages and file lines:
StatusRunning == -1    \* "[STATUS]: running"
StatusStopped == 0     \* "[STATUS]: stopped"
StoppedMarker == 0     \* "[Server Stopped]"

\* The channel of a new record.  The receiver half that channel(1000) returns
\* is dropped at once, so a new channel has no receiver.
NewChan(thread) == [sent |-> <<>>, rxcnt |-> 0, rec |-> TRUE, thread |-> thread, nread |-> 0]

\* Sender::send never waits for a receiver.
CanSendWhenRoom(k) ==
    \A r \in 1..Len(rx) :
        rx[r].ch = k /\ rx[r].open => Len(chan[k].sent) - rx[r].next < BufCap
CanSend(k) == TRUE

\* Sender::send(m) on channel k: with no receiver it returns Err and stores
\* nothing (the callers ignore the result); otherwise m becomes the newest
\* message, and only the BufCap newest messages stay available.
SendNewestFirst(ch, m) == IF ch.rxcnt = 0 THEN ch ELSE [ch EXCEPT !.sent = <<m>> \o @]
Send(ch, m) == IF ch.rxcnt = 0 THEN ch ELSE [ch EXCEPT !.sent = Append(@, m)]

\* A channel is closed when every Sender is gone: the one in the record and
\* the clone the reader thread holds until the end of the stream.
Closed(k) == k = 0 \/ (~chan[k].rec /\ chan[k].thread # "reading")
TailPos(k) == IF k = 0 THEN 0 ELSE Len(chan[k].sent)

\* start: a channel, the reader thread, the record.
LogStart ==
    /\ tracked = 0
    /\ Len(chan) < MaxChans
    /\ chan' = Append(chan, Send(NewChan("reading"), StatusRunning))
    /\ file' = Append(file, <<>>)
    /\ tracked' = Len(chan) + 1
    /\ UNCHANGED rx
    /\ UNCHANGED <<tableVars, scanVars, metricVars, installVars>>

\* register_installing: a channel and a record without process or threads.
LogRegister ==
    /\ tracked = 0
    /\ Len(chan) < MaxChans
    /\ chan' = Append(chan, NewChan("none"))
    /\ file' = Append(file, <<>>)
    /\ tracked' = Len(chan) + 1
    /\ UNCHANGED rx
    /\ UNCHANGED <<tableVars, scanVars, metricVars, installVars>>

\* stop, kill, remove or the cleanup of is_running: the record and its
\* Sender are dropped.
LogRemove ==
    /\ tracked # 0
    /\ chan' = [chan EXCEPT ![tracked].rec = FALSE]
    /\ tracked' = 0
    /\ UNCHANGED <<file, rx>>
    /\ UNCHANGED <<tableVars, scanVars, metricVars, installVars>>

\* The stdout reader thread of channel k reads its next line: the line goes
\* to the log file, then to the channel.
ReadLine(k) ==
    /\ chan[k].thread = "reading"
    /\ chan[k].nread < MaxLines
    /\ CanSend(k)
    /\ LET n == chan[k].nread + 1 IN
       /\ file' = [file EXCEPT ![k] = Append(@, n)]
       /\ chan' = [chan EXCEPT ![k] = [Send(@, n) EXCEPT !.nread = n]]
    /\ UNCHANGED <<tracked, rx>>
    /\ UNCHANGED <<tableVars, scanVars, metricVars, installVars>>

\* The stream of channel k ends (the process has closed its output): the
\* thread publishes the stopped status, writes the marker and ends, which
\* drops its Sender.
Eof(k) ==
    /\ chan[k].thread = "reading"
    /\ CanSend(k)
    /\ chan' = [chan EXCEPT ![k] = [Send(@, StatusStopped) EXCEPT !.thread = "ended"]]
    /\ file' = [file EXCEPT ![k] = Append(@, StoppedMarker)]
    /\ UNCHANGED <<tracked, rx>>
    /\ UNCHANGED <<tableVars, scanVars, metricVars, installVars>>

\* subscribe_logs: try_read, get(id), log_tx.subscribe(); in every other case
\* the receiver of a channel made on the spot, whose Sender goes out of scope
\* when subscribe_logs returns (channel 0).  A receiver starts at the tail.
subscribe_stale(readable) == IF readable /\ tracked # 0 THEN tracked ELSE Len(chan)
subscribe_logs(readable) == IF readable /\ tracked # 0 THEN tracked ELSE 0

Subscribe(readable) ==
    /\ Len(rx) < MaxRx
    /\ LET k == subscribe_logs(readable) IN
       /\ rx' = Append(rx, [ch |-> k, from |-> TailPos(k), next |-> TailPos(k), got |-> <<>>,
                            lag |-> 0, open |-> TRUE,
                            absent |-> tracked = 0, made |-> Len(chan)])
       /\ chan' = IF k = 0 THEN chan ELSE [chan EXCEPT ![k].rxcnt = @ + 1]
    /\ UNCHANGED <<tracked, file>>
    /\ UNCHANGED <<tableVars, scanVars, metricVars, installVars>>

\* Receiver::recv as the console socket loop uses it: a receiver more than
\* BufCap messages behind gets Lagged and moves to the oldest message kept;
\* otherwise it gets its next message; with none left it gets Closed when the
\* channel is closed (the loop ends and drops it) and waits when it is not.
recv_unlagged(r) ==
    LET k == rx[r].ch IN
    IF rx[r].next < TailPos(k) THEN "Ok"
    ELSE IF Closed(k) THEN "Closed" ELSE "Pending"
recv(r) ==
    LET k == rx[r].ch IN
    IF TailPos(k) - rx[r].next > BufCap THEN "Lagged"
    ELSE IF rx[r].next < TailPos(k) THEN "Ok"
    ELSE IF Closed(k) THEN "Closed" ELSE "Pending"

Recv(r) ==
    /\ rx[r].open
    /\ LET k == rx[r].ch
           o == recv(r) IN
       /\ o # "Pending"
       /\ rx' = [rx EXCEPT ![r] =
                   CASE o = "Lagged" -> [@ EXCEPT !.next = TailPos(k) - BufCap, !.lag = @ + 1]
                     [] o = "Ok" -> [@ EXCEPT !.next = @ + 1,
                                              !.got = Append(@, chan[k].sent[rx[r].next + 1])]
                     [] o = "Closed" -> [@ EXCEPT !.open = FALSE]]
       /\ chan' = IF o = "Closed" /\ k # 0 THEN [chan EXCEPT ![k].rxcnt = @ - 1] ELSE chan
    /\ UNCHANGED <<tracked, file>>
    /\ UNCHANGED <<tableVars, scanVars, metricVars, installVars>>

NextLog ==
    \/ LogStart
    \/ LogRegister
    \/ LogRemove
    \/ \E k \in 1..Len(chan) : ReadLine(k)
    \/ \E k \in 1..Len(chan) : Eof(k)
    \/ \E readable \in BOOLEAN : Subscribe(readable)
    \/ \E r \in 1..Len(rx) : Recv(r)

SpecLog == Init /\ [][NextLog]_vars

\* ========================================================= output scanner
\* The stdout reader thread of one tracked record and its player set.  A line
\* is a sequence of tokens: "H" is a header "[..] [..]: ", "J" the phrase
\* " joined the game", "L" the phrase " left the game", the others are the
\* characters names are made of, "P" is one of the phrases of the
\* authentication prompt, and "R" is the phrase "Universe ready!".
MaxLineLen == 3    \* tokens in a line
MaxScan == 3       \* lines the scanner processes

NameChars == {"a", "b"}
Tokens == {"H", "J", "L", "P", "R"} \cup NameChars
Lines == UNION {[1..n -> Tokens] : n \in 0..MaxLineLen}
Names == UNION {[1..n -> NameChars] : n \in 1..(MaxLineLen - 2)}

Last(S) == CHOOSE i \in S : \A j \in S : j <= i

\* Regex::captures of  \[.*\] \[.*\]: (.*)<phrase>  on line s, as the set of
\* what group 1 holds (empty when the line does not match).  Every .* is
\* greedy: group 1 ends at the last occurrence of the phrase and begins
\* after the last header before it.
captures(s, phrase) ==
    LET ends == {j \in 1..Len(s) : s[j] = phrase}
        heads == {k \in 1..Len(s) : s[k] = "H" /\ k < Last(ends)}
    IN  IF ends = {} \/ heads = {} THEN {}
        ELSE {SubSeq(s, Last(heads) + 1, Last(ends) - 1)}

join_re(s) == captures(s, "J")
leave_re(s) == captures(s, "L")

\* The player matchers, an if / else-if chain: a line that matches the join
\* pattern is not tried against the leave pattern.
ScanPlayersKeeping(p, s) ==
    IF join_re(s) # {} THEN p \cup join_re(s) ELSE p
ScanPlayers(p, s) ==
    IF join_re(s) # {} THEN p \cup join_re(s)
    ELSE IF leave_re(s) # {} THEN p \ leave_re(s)
    ELSE p

\* get_online_players on the record: a copy of its set.
get_online_players == players

\* The lines the server prints when a player of that name comes and goes.
JoinLine(n) == <<"H">> \o n \o <<"J">>
LeaveLine(n) == <<"H">> \o n \o <<"L">>

\* The observer: a join line of a name, then the leave line of that name
\* right after it, with the set as it was before the join.
Observe(s) ==
    IF \E n \in Names : s = JoinLine(n)
       THEN [kind |-> "join", name |-> SubSeq(s, 2, Len(s) - 1), before |-> players]
    ELSE IF seen.kind = "join" /\ s = LeaveLine(seen.name)
       THEN [seen EXCEPT !.kind = "round"]
    ELSE NoSeen

\* Runtime auth detection: line.contains(..) of one of the prompt phrases.
IsPrompt(s) == \E k \in 1..Len(s) : s[k] = "P"

\* Regex::is_match of  Universe ready!  on line s.
server_started_re(s) == \E k \in 1..Len(s) : s[k] = "R"

\* The matchers whose pattern line s matches.
Hits(s) ==
    {m \in {"join", "leave", "ready", "auth"} :
        \/ m = "join" /\ join_re(s) # {}
        \/ m = "leave" /\ leave_re(s) # {}
        \/ m = "ready" /\ server_started_re(s)
        \/ m = "auth" /\ IsPrompt(s)}

Has(q, e) == \E k \in 1..Len(q) : q[k] = e

\* A write of `what` to the log file: made when the file is open, skipped
\* when start could not open it, failed and ignored when the write fails.
WriteLogOrPanic(what) == IF log_file = "open" THEN <<what>> ELSE <<"panic">>
WriteLog(what) ==
    IF log_file = "open" THEN <<what>>
    ELSE IF log_file = "failing" THEN <<"write_failed">>
    ELSE <<>>

\* The database update of a join or a leave, with a pool: tokio::spawn called
\* on a std::thread, which has no runtime context, panics.
Persist == IF pool THEN <<"panic">> ELSE <<>>

\* The matcher chain of the stdout thread: if join, else if leave, else if
\* ready.
Matchers(s) ==
    IF join_re(s) # {} THEN <<"insert">> \o Persist
    ELSE IF leave_re(s) # {} THEN <<"remove">> \o Persist
    ELSE IF server_started_re(s) THEN <<"running">>
    ELSE <<>>

\* One turn of the stdout loop on line s: the line goes to the file, the
\* matcher chain runs, then the prompt detection, and the line is sent last.
\* A panic ends the turn where it happens.
StdoutSteps(s) ==
    LET m == WriteLog("file") \o Matchers(s)
    IN  IF Has(m, "panic") THEN m
        ELSE m \o (IF IsPrompt(s) THEN <<"auth">> ELSE <<>>) \o <<"line">>

\* One turn of the stderr loop: file, send, prompt detection.
StderrSteps(s) ==
    WriteLog("file") \o <<"line">> \o (IF IsPrompt(s) THEN <<"auth">> ELSE <<>>)

\* What a thread does after its loop: the stdout thread sends the stopped
\* status and writes the marker, the stderr thread only logs.
Epilogue(t) == IF t = "out" THEN <<"stopped">> \o WriteLog("marker") ELSE <<>>

\* The stdout reader thread processes line s.
ScanLine(s) ==
    /\ scanned < MaxScan
    /\ worker["out"] = "reading" /\ stream["out"] = "open"
    /\ scanned' = scanned + 1
    /\ players' = ScanPlayers(players, s)
    /\ seen' = Observe(s)
    /\ auth_required' = (auth_required \/ Has(StdoutSteps(s), "auth"))
    /\ worker' = IF Has(StdoutSteps(s), "panic")
                    THEN [worker EXCEPT !["out"] = "panicked"] ELSE worker
    /\ did' = [by |-> "out", at |-> "line", hits |-> Hits(s),
               steps |-> StdoutSteps(s)]
    /\ UNCHANGED <<auth_file, pool, log_file, stream>>
    /\ UNCHANGED <<tableVars, logVars, metricVars, installVars>>

\* The stderr reader thread processes line s: no player matching.
ScanErrLine(s) ==
    /\ scanned < MaxScan
    /\ worker["err"] = "reading" /\ stream["err"] = "open"
    /\ scanned' = scanned + 1
    /\ auth_required' = (auth_required \/ Has(StderrSteps(s), "auth"))
    /\ did' = [by |-> "err", at |-> "line", hits |-> Hits(s),
               steps |-> StderrSteps(s)]
    /\ UNCHANGED <<players, seen, auth_file, pool, log_file, worker, stream>>
    /\ UNCHANGED <<tableVars, logVars, metricVars, installVars>>

\* The pipe of thread t is closed by the process: lines() is exhausted, the
\* loop ends and the thread goes on to what follows the loop.  The thread
\* holds no reference to the table.
ScanEofRemoving(t) ==
    /\ worker[t] = "reading" /\ stream[t] = "open"
    /\ worker' = [worker EXCEPT ![t] = "ended"]
    /\ stream' = [stream EXCEPT ![t] = "eof"]
    /\ did' = [by |-> t, at |-> "eof", hits |-> {}, steps |-> Epilogue(t)]
    /\ processes' = [processes EXCEPT ![1] = NoRec]
    /\ UNCHANGED <<players, scanned, seen, auth_required, auth_file, pool, log_file>>
    /\ UNCHANGED <<orphans, wlock, samplerIn, pc, op, arg, ev, race, jobs>>
    /\ UNCHANGED <<logVars, metricVars, installVars>>
ScanEof(t) ==
    /\ worker[t] = "reading" /\ stream[t] = "open"
    /\ worker' = [worker EXCEPT ![t] = "ended"]
    /\ stream' = [stream EXCEPT ![t] = "eof"]
    /\ did' = [by |-> t, at |-> "eof", hits |-> {}, steps |-> Epilogue(t)]
    /\ UNCHANGED <<players, scanned, seen, auth_required, auth_file, pool, log_file>>
    /\ UNCHANGED <<tableVars, logVars, metricVars, installVars>>

\* The process prints bytes that are not UTF-8 on the pipe of thread t:
\* lines() yields an Err, map_while(Result::ok) stops there, and the thread
\* goes on to what follows the loop with the pipe still open.
ScanInvalid(t) ==
    /\ worker[t] = "reading" /\ stream[t] = "open"
    /\ worker' = [worker EXCEPT ![t] = "ended"]
    /\ did' = [by |-> t, at |-> "invalid", hits |-> {}, steps |-> Epilogue(t)]
    /\ UNCHANGED <<players, scanned, seen, auth_required, auth_file, pool, log_file, stream>>
    /\ UNCHANGED <<tableVars, logVars, metricVars, installVars>>

\* The id of the record whose reader threads are followed, and the table as
\* start(ScanId) leaves it.
ScanId == 1

WorkersInit ==
    /\ processes = [i \in Ids |-> IF i = ScanId THEN Spawned ELSE NoRec]
    /\ orphans = [i \in Ids |-> 0]
    /\ wlock = 0
    /\ samplerIn = FALSE
    /\ pc = [c \in Clients |-> "idle"]
    /\ op = [c \in Clients |-> "none"]
    /\ arg = [c \in Clients |-> 1]
    /\ ev = NoEv
    /\ race = NoRace
    /\ jobs = [i \in Ids |-> 0]
    /\ LogInit /\ ScanInit /\ MetricsInit /\ InstallInit
    /\ pool \in BOOLEAN /\ log_file \in {"open", "none", "failing"}

NextScan ==
    \/ \E s \in Lines : ScanLine(s)
    \/ \E s \in Lines : ScanErrLine(s)
    \/ \E t \in Threads : ScanEof(t)
    \/ \E t \in Threads : ScanInvalid(t)

SpecScan == WorkersInit /\ [][NextScan]_vars

\* ------------------------------------------------------- is_auth_required
\* The credential file appears in the working directory.
CreateAuthFile ==
    /\ ~auth_file
    /\ auth_file' = TRUE
    /\ UNCHANGED <<players, scanned, seen, auth_required, pool, log_file, worker, stream, did>>
    /\ UNCHANGED <<tableVars, logVars, metricVars, installVars>>

\* The body of is_auth_required(ScanId) returning ret; it sets auth_required'.
is_auth_required(ret) ==
    IF ReadFree /\ processes[ScanId].present
       THEN IF auth_required /\ auth_file
               THEN ret = FALSE /\ auth_required' = FALSE
               ELSE ret = auth_required /\ UNCHANGED auth_required
       ELSE ret = FALSE /\ UNCHANGED auth_required

IsAuthRequired ==
    /\ ev = NoEv
    /\ \E ret \in BOOLEAN :
          /\ is_auth_required(ret)
          /\ ev' = Returned(0, "is_auth_required", "is_auth_required", ScanId, Bool(ret),
                            FALSE, FALSE)
    /\ UNCHANGED <<processes, orphans, wlock, samplerIn, pc, op, arg, race, jobs>>
    /\ UNCHANGED <<players, scanned, seen, auth_file, pool, log_file, worker, stream, did>>
    /\ UNCHANGED <<logVars, metricVars, installVars>>

\* The flag of one record, its reader threads fed with lines of at most one
\* token, and another id being started and stopped by one client, which is
\* what takes the table exclusively meanwhile.
PromptLines == {s \in Lines : Len(s) <= 1}
OtherId == 2
Writer == 1

NextAuth ==
    \/ \E s \in PromptLines : ScanLine(s)
    \/ \E s \in PromptLines : ScanErrLine(s)
    \/ CreateAuthFile
    \/ IsAuthRequired
    \/ Ack
    \/ StartAcquire(Writer, OtherId)
    \/ StartSpawn(Writer)
    \/ StopAcquire(Writer, OtherId)
    \/ StopWake(Writer)
    \/ Exit(OtherId)

SpecAuth == WorkersInit /\ [][NextAuth]_vars

\* ------------------------------------------------- the end of a process
\* The reader threads of the record of ScanId fed with lines of at most two
\* tokens, the process exiting by itself, and the calls that take a record
\* out of the table made on that id.
ShortLines == {s \in Lines : Len(s) <= 2}

NextExit ==
    \/ \E s \in ShortLines : ScanLine(s)
    \/ \E s \in ShortLines : ScanErrLine(s)
    \/ \E t \in Threads : ScanEof(t)
    \/ \E t \in Threads : ScanInvalid(t)
    \/ Exit(ScanId)
    \/ IsRunning(ScanId)
    \/ Kill(ScanId)
    \/ StopAcquire(Writer, ScanId)
    \/ StopWake(Writer)
    \/ Ack

SpecExit == WorkersInit /\ [][NextExit]_vars

\* ================================================================ metrics
\* The metrics loop, the caches it fills in the records, and
\* get_metrics_data.  Of what the loop publishes, the message of the last
\* tick is kept for each record.
DiskPeriod == 15     \* tick_count % 15 == 0
MaxSample == 2       \* values a reading can take, besides 0

Samples == 1..MaxSample

\* A record is put for an id that has none (start or register_installing):
\* its caches are new.
MetricsInsert(i, r) ==
    /\ ~processes[i].present
    /\ processes' = [processes EXCEPT ![i] = r]
    /\ cache' = [cache EXCEPT ![i] = Zero]
    /\ metrics_msg' = [metrics_msg EXCEPT ![i] = NoMsg]
    /\ UNCHANGED <<tick_count, got_metrics>>
    /\ UNCHANGED <<orphans, wlock, samplerIn, pc, op, arg, ev, race, jobs>>
    /\ UNCHANGED <<logVars, scanVars, installVars>>

\* The record of i leaves the table (stop, kill, remove, is_running), and
\* its caches go with it.
MetricsDrop(i) ==
    /\ processes[i].present
    /\ processes' = [processes EXCEPT ![i] = NoRec]
    /\ UNCHANGED <<cache, tick_count, got_metrics, metrics_msg>>
    /\ UNCHANGED <<orphans, wlock, samplerIn, pc, op, arg, ev, race, jobs>>
    /\ UNCHANGED <<logVars, scanVars, installVars>>

\* The disk size is taken at the ticks whose count is a multiple of
\* DiskPeriod, the first tick among them.
DiskTickAlways == TRUE
DiskTick == tick_count % DiskPeriod = 0

\* One tick of the loop.  found[i] is the reading for the process of i, 0
\* when the snapshot of the OS process table taken before the tick does not
\* have its pid.  cpu and memory are cached at every tick, the disk size
\* at a disk tick.
SampledAny(i, reading) ==
    IF reading # 0
       THEN [cpu |-> reading, mem |-> reading, disk |-> reading]
       ELSE cache[i]
Sampled(i, reading) ==
    IF processes[i].child /\ reading # 0
       THEN [cpu |-> reading, mem |-> reading,
             disk |-> IF DiskTick THEN reading ELSE cache[i].disk]
       ELSE cache[i]

\* The metrics message of the tick for the record of i: cpu and memory, and
\* disk_bytes at a disk tick; none for a record without handle or whose pid
\* was not found.
Published(i, reading) ==
    IF ~processes[i].present THEN NoMsg
    ELSE IF processes[i].child /\ reading # 0
       THEN [st |-> "sent", cpu |-> reading, mem |-> reading,
             disk |-> IF DiskTick THEN reading ELSE 0, has_disk |-> DiskTick]
       ELSE [NoMsg EXCEPT !.st = "skipped"]

Tick ==
    /\ \E found \in [Ids -> {0} \cup Samples] :
          /\ cache' = [i \in Ids |-> Sampled(i, found[i])]
          /\ metrics_msg' = [i \in Ids |-> Published(i, found[i])]
    /\ tick_count' = (tick_count + 1) % DiskPeriod
    /\ UNCHANGED got_metrics
    /\ UNCHANGED <<tableVars, logVars, scanVars, installVars>>

\* get_metrics_data(i): the three caches of the record, zeros without record.
get_metrics_stale(i) == cache[i]
get_metrics_data(i) == IF processes[i].present THEN cache[i] ELSE Zero

GetMetricsData(i) ==
    /\ got_metrics' = [id |-> i, val |-> get_metrics_data(i)]
    /\ UNCHANGED <<cache, tick_count, metrics_msg>>
    /\ UNCHANGED <<tableVars, logVars, scanVars, installVars>>

NextMetrics ==
    \/ \E i \in Ids, r \in {Virtual, Spawned} : MetricsInsert(i, r)
    \/ \E i \in Ids : MetricsDrop(i)
    \/ Tick
    \/ \E i \in Ids : GetMetricsData(i)

SpecMetrics == Init /\ [][NextMetrics]_vars

\* ======================================================= installation job
\* The task spawn_hytale_installation spawns for an id: it registers the id
\* as installing, runs curl, unzip and the downloader with their output
\* broadcast on the record's channel, and removes the record.  Two such jobs
\* for one id, kill on that id, and one client starting and stopping a
\* server on another id, which is what holds the table meanwhile.
JobId == 1

\* Where a job goes after the command of position p: a failed curl or unzip
\* sends it to its remove and return, a failed downloader does not abort.
AfterRunReturning(p, ok) ==
    IF p = "download" THEN (IF ok THEN "unzip" ELSE "ended")
    ELSE IF p = "unzip" THEN (IF ok THEN "downloader" ELSE "ended")
    ELSE "verify"
AfterRun(p, ok) ==
    IF p = "download" THEN (IF ok THEN "unzip" ELSE "remove")
    ELSE IF p = "unzip" THEN (IF ok THEN "downloader" ELSE "remove")
    ELSE "verify"

\* broadcast_log(JobId, msg) by job j: the message goes to the record the id
\* has at that moment, to nobody when it has none.
Broadcast(j) ==
    [job[j] EXCEPT !.sent = IF processes[JobId].present THEN 1 ELSE @]

\* register_installing(JobId) by job j; on Err the task returns.
JobRegister(j) ==
    /\ job[j].pc = "register"
    /\ WriteFree
    /\ IF processes[JobId].present
          THEN /\ job' = [job EXCEPT ![j].pc = "gave_up"]
               /\ UNCHANGED processes
          ELSE /\ job' = [job EXCEPT ![j].pc = "download"]
               /\ processes' = [processes EXCEPT ![JobId] = Virtual]
    /\ UNCHANGED <<orphans, wlock, samplerIn, pc, op, arg, ev, race, jobs>>
    /\ UNCHANGED <<logVars, scanVars, metricVars>>

\* Job j announces and runs the command of its position, curl, unzip or the
\* downloader, which ends well or not.
JobRun(j, ok) ==
    /\ job[j].pc \in {"download", "unzip", "downloader"}
    /\ ReadFree
    /\ job' = [job EXCEPT ![j] = [Broadcast(j) EXCEPT !.pc = AfterRun(job[j].pc, ok)]]
    /\ UNCHANGED tableVars
    /\ UNCHANGED <<logVars, scanVars, metricVars>>

\* Job j looks for HytaleServer.jar and reports.
JobVerify(j) ==
    /\ job[j].pc = "verify"
    /\ ReadFree
    /\ job' = [job EXCEPT ![j] = [Broadcast(j) EXCEPT !.pc = "remove"]]
    /\ UNCHANGED tableVars
    /\ UNCHANGED <<logVars, scanVars, metricVars>>

\* pm.remove(JobId) by job j, and the task ends.
JobRemove(j) ==
    /\ job[j].pc = "remove"
    /\ WriteFree
    /\ orphans' = [orphans EXCEPT ![JobId] = @ + Dropped(JobId)]
    /\ processes' = [processes EXCEPT ![JobId] = NoRec]
    /\ job' = [job EXCEPT ![j].pc = "ended", ![j].removed = @ + 1]
    /\ UNCHANGED <<wlock, samplerIn, pc, op, arg, ev, race, jobs>>
    /\ UNCHANGED <<logVars, scanVars, metricVars>>

JobStep(j) ==
    \/ JobRegister(j)
    \/ \E ok \in BOOLEAN : JobRun(j, ok)
    \/ JobVerify(j)
    \/ JobRemove(j)

NextInstall ==
    \/ \E j \in Installers : JobRegister(j)
    \/ \E j \in Installers, ok \in BOOLEAN : JobRun(j, ok)
    \/ \E j \in Installers : JobVerify(j)
    \/ \E j \in Installers : JobRemove(j)
    \/ Kill(JobId)
    \/ Ack
    \/ StartAcquire(Writer, OtherId)
    \/ StartSpawn(Writer)
    \/ StopAcquire(Writer, OtherId)
    \/ StopWake(Writer)
    \/ Exit(OtherId)

\* The runtime runs a spawned task that can go on, the commands end, the
\* table's lock is handed to its waiters in turn, and a call that holds it
\* returns.
InstallFairness ==
    /\ \A j \in Installers : SF_vars(JobStep(j))
    /\ WF_vars(StartSpawn(Writer))
    /\ WF_vars(StopWake(Writer))
    /\ WF_vars(Ack)

SpecInstall == Init /\ [][NextInstall]_vars /\ InstallFairness

\* ================================================================ queries
\* The queries that leave the table as it is, and broadcast_log, called while
\* installation jobs run on one id and a client starts and stops a server on
\* the other, which is what holds the table meanwhile.

\* is_installing(i): try_read, get(i), child.is_none(); false otherwise.
is_installing(i) == ReadFree /\ processes[i].present /\ ~processes[i].child

IsInstalling(i) ==
    /\ ev = NoEv
    /\ ev' = Returned(0, "is_installing", "is_installing", i, Bool(is_installing(i)),
                      FALSE, FALSE)
    /\ UNCHANGED <<processes, orphans, wlock, samplerIn, pc, op, arg, race>>
    /\ UNCHANGED <<jobs, logVars, scanVars, metricVars, installVars>>

\* get_server_started_at(i): try_read, get(i), the record's started_at, which
\* both start and register_installing set to Some(now); None otherwise.
get_server_started_at(i) == IF ReadFree /\ processes[i].present THEN "Some" ELSE "None"

GetServerStartedAt(i) ==
    /\ ev = NoEv
    /\ ev' = Returned(0, "get_server_started_at", "get_server_started_at", i,
                      get_server_started_at(i), FALSE, FALSE)
    /\ UNCHANGED <<processes, orphans, wlock, samplerIn, pc, op, arg, race>>
    /\ UNCHANGED <<jobs, logVars, scanVars, metricVars, installVars>>

\* get_online_players(i): read().await, get(i), Some(copy of the set); None
\* without record.
players_of_any(i) == "Some"
players_of(i) == IF processes[i].present THEN "Some" ELSE "None"

GetOnlinePlayers(i) ==
    /\ ev = NoEv
    /\ ReadFree
    /\ ev' = Returned(0, "get_online_players", "get_online_players", i, players_of(i),
                      FALSE, FALSE)
    /\ UNCHANGED <<processes, orphans, wlock, samplerIn, pc, op, arg, race>>
    /\ UNCHANGED <<jobs, logVars, scanVars, metricVars, installVars>>

\* broadcast_log(i, message): read().await, get(i), log_tx.send(message) with
\* its result ignored; nothing without record.
BroadcastLog(i) ==
    /\ ev = NoEv
    /\ ReadFree
    /\ ev' = Returned(0, "broadcast_log", "broadcast_log", i,
                      IF processes[i].present THEN "sent" ELSE "none", FALSE, FALSE)
    /\ UNCHANGED <<processes, orphans, wlock, samplerIn, pc, op, arg, race>>
    /\ UNCHANGED <<jobs, logVars, scanVars, metricVars, installVars>>

NextQuery ==
    \/ \E i \in Ids : IsInstalling(i)
    \/ \E i \in Ids : GetServerStartedAt(i)
    \/ \E i \in Ids : GetOnlinePlayers(i)
    \/ \E i \in Ids : BroadcastLog(i)
    \/ \E i \in Ids : SubscribeLogs(i)
    \/ \E i \in Ids : GetMetricsData(i)
    \/ \E j \in Installers : JobRegister(j)
    \/ \E j \in Installers, ok \in BOOLEAN : JobRun(j, ok)
    \/ \E j \in Installers : JobVerify(j)
    \/ \E j \in Installers : JobRemove(j)
    \/ Kill(JobId)
    \/ Ack
    \/ StartAcquire(Writer, OtherId)
    \/ StartSpawn(Writer)
    \/ StopAcquire(Writer, OtherId)
    \/ StopWake(Writer)
    \/ Exit(OtherId)

SpecQuery == Init /\ [][NextQuery]_vars

\* =================================================================== claims
\* A step in which function fn returns to its caller.
Ret(fn) == ev' # ev /\ ev'.fn = fn

\* ---- C1 ----------------------------------------------------------------
RaceDone == race.on /\ Len(race.out) = 2
Successes == Cardinality({k \in 1..Len(race.out) : race.out[k] = "ok"})

\* C1 as stated: of two start calls in progress together on an id that has
\* no record, exactly one returns success, the other fails with
\* AlreadyActive, and exactly one OS process is spawned.
C1_ExactlyOneStartSucceeds ==
    RaceDone => /\ {race.out[1], race.out[2]} = {"ok", "AlreadyActive"}
                /\ race.n = 1

\* C1 amended: of two start calls in progress together on an id that has no
\* record, at most one returns success and as many OS processes are spawned
\* as calls succeed; the call that comes after a successful one fails with
\* AlreadyActive, and a call whose spawn the OS refuses fails with
\* SpawnFailed and leaves the id free for the other.
C1_AtMostOneStartSucceeds ==
    RaceDone => /\ race.out \in {<<"ok", "AlreadyActive">>,
                                 <<"SpawnFailed", "ok">>,
                                 <<"SpawnFailed", "SpawnFailed">>}
                /\ race.n = Successes

C1_Witness == RaceDone /\ race.out = <<"ok", "AlreadyActive">> /\ race.n = 1

\* ---- C2 ----------------------------------------------------------------
\* C2: an is_running(id) call made when the record of id holds a process
\* that has exited returns false and removes the record (so that a later
\* start is not refused), whoever else is using the table.
C2_LazyCleanup ==
    [][Ret("is_running") /\ processes[ev'.id].child /\ ~processes[ev'.id].alive
          => ev'.res = "false" /\ ~processes'[ev'.id].present]_vars

\* ---- C3 ----------------------------------------------------------------
\* C3: an is_running(id) call made when id has a record that is virtual or
\* whose process is alive returns true, whoever else is using the table.
C3_RunningIsReported ==
    [][Ret("is_running") /\ processes[ev'.id].present
                         /\ (~processes[ev'.id].child \/ processes[ev'.id].alive)
          => ev'.res = "true"]_vars

\* ---- C4 ----------------------------------------------------------------
\* C4: when stop(id), invoked on a tracked id, returns, id has no record,
\* whatever the liveness check or the forced termination reported.
C4_StopAlwaysRemoves ==
    [][Ret("stop") /\ processes[ev'.id].present => ~processes'[ev'.id].present]_vars

\* ---- C5 ----------------------------------------------------------------
\* C5: a stop on a record with a handle returns only after the sleep that
\* follows the write of the shutdown command, and it invokes kill exactly
\* when the liveness check made after that sleep finds the process alive.
C5_GracefulThenForced ==
    [][\A c \in Clients :
          Ret("stop") /\ ev'.c = c
             => LET r == processes[ev'.id] IN
                /\ r.child => pc[c] = "stop_sleep" /\ r.stdin = "/shutdown"
                /\ ev'.forced <=> (pc[c] = "stop_sleep" /\ r.alive)]_vars

C5_Witness == ev.fn = "stop" /\ ev.forced /\ ev.res = "ok"

\* ---- C6 ----------------------------------------------------------------
\* C6: restart fails only with SpawnFailed, and when it succeeds the table
\* holds a record of id with the process it has just spawned.
C6_RestartOnlySpawnFailed ==
    ev.top = "restart" /\ pc[ev.c] = "idle"
       => /\ ev.res \in {"ok", "SpawnFailed"}
          /\ ev.res = "ok" => processes[ev.id] = Spawned

\* ---- C7 ----------------------------------------------------------------
\* C7: subscribe_logs(id) called while id has a record returns a receiver
\* attached to that record's channel, also while the table is taken.
C7_SubscribeAttaches ==
    [][Ret("subscribe_logs") /\ processes[ev'.id].present => ev'.attached]_vars
\* ---- C8 ----------------------------------------------------------------
\* C8: a receiver that subscribe_logs returned while the id had no record
\* never gets a message (and no lag indication either), whatever is
\* published later, also on the channel of a record created afterwards.
C8_AbsentIdGivesInertReceiver ==
    \A r \in 1..Len(rx) : rx[r].absent => rx[r].got = <<>> /\ rx[r].lag = 0

\* Such a receiver has asked for a message, and a record created after it
\* has messages on its channel.
C8_Witness ==
    \E r \in 1..Len(rx) :
        /\ rx[r].absent /\ ~rx[r].open
        /\ \E k \in 1..Len(chan) : k > rx[r].made /\ Len(chan[k].sent) > 0

\* ---- C9 ----------------------------------------------------------------
LinesRead(k) == [n \in 1..chan[k].nread |-> n]

\* C9: the reader thread can always take its next line, however far behind a
\* receiver is; the log file holds every line read, in order; a receiver that
\* has had no lag indication has received, in order, every message stored
\* since it subscribed up to its position; and a receiver more than the
\* channel's capacity behind gets a lag indication from its next receive.
C9_SlowSubscriberIsolation ==
    /\ [](\A k \in 1..Len(chan) :
            /\ chan[k].thread = "reading" /\ chan[k].nread < MaxLines => ENABLED ReadLine(k)
            /\ file[k] = IF chan[k].thread = "ended"
                            THEN Append(LinesRead(k), StoppedMarker) ELSE LinesRead(k))
    /\ [](\A r \in 1..Len(rx) :
            rx[r].lag = 0 /\ rx[r].ch # 0
               => rx[r].got = SubSeq(chan[rx[r].ch].sent, rx[r].from + 1, rx[r].next))
    /\ [][\A r \in 1..Len(rx) :
            rx'[r] # rx[r] /\ TailPos(rx[r].ch) - rx[r].next > BufCap
               => rx'[r].lag = rx[r].lag + 1 /\ rx'[r].got = rx[r].got]_vars

\* One receiver of a channel has had its lag indication while another has
\* received more messages than the channel keeps, and the file has them all.
C9_Witness ==
    \E r \in 1..Len(rx), q \in 1..Len(rx) :
        /\ r # q /\ rx[r].ch = rx[q].ch /\ rx[r].ch # 0
        /\ rx[r].lag > 0 /\ rx[r].got = <<>>
        /\ rx[q].lag = 0 /\ Len(rx[q].got) > BufCap
        /\ Len(file[rx[r].ch]) > BufCap

\* ---- C10 ---------------------------------------------------------------
\* C10: once the scanner has processed the join line of a name, the name is
\* in what get_online_players returns; once it has then processed the leave
\* line of that name, the name is not in it, and the set is the one from
\* before the join when the name was not in that one.
C10_PlayerRoundTrip ==
    /\ seen.kind = "join" => seen.name \in get_online_players
    /\ seen.kind = "round" =>
          /\ seen.name \notin get_online_players
          /\ seen.name \notin seen.before => get_online_players = seen.before

C10_Witness ==
    /\ seen.kind = "round"
    /\ seen.name \notin seen.before
    /\ seen.before # {}
\* ---- C12 ---------------------------------------------------------------
\* C12: send_command(id, text) fails only with NotRunning, and exactly when
\* id has no record; on a virtual record it succeeds and does nothing; on a
\* record with a handle it succeeds whether or not the write to the process's
\* input went through; no record is added, removed or replaced.
C12_SendCommandOnlyNotRunning ==
    [][Ret("send_command")
          => LET r == processes[ev'.id] IN
             /\ ev'.res = IF r.present THEN "ok" ELSE "NotRunning"
             /\ ~r.child => processes' = processes
             /\ \A j \in Ids : [processes'[j] EXCEPT !.stdin = "none"]
                                  = [processes[j] EXCEPT !.stdin = "none"]]_vars

\* ---- C13 ---------------------------------------------------------------
\* C13: stop, kill and send_command on an id that has no record return
\* NotRunning, leave every record as it is, and neither signal nor write to
\* any process.
C13_AbsentIdIsNotRunning ==
    [][(Ret("stop") \/ Ret("kill") \/ Ret("send_command")) /\ ~processes[ev'.id].present
          => /\ ev'.res = "NotRunning"
             /\ ~ev'.forced
             /\ UNCHANGED <<processes, orphans, jobs, wlock>>]_vars

C13_Witness ==
    /\ ev.fn \in {"stop", "kill", "send_command"}
    /\ ev.res = "NotRunning"
    /\ \E j \in Ids : processes[j].child /\ processes[j].alive

\* ---- C14 ---------------------------------------------------------------
\* C14: kill(id) on a tracked id is one exclusive step with no sleep and no
\* write to the process's input; it signals the process exactly when the
\* record holds one; when it returns success the record is gone, and when
\* the signal is refused nothing has changed.
C14_KillAtOnce ==
    [][Ret("kill") /\ processes[ev'.id].present
          => LET i == ev'.id IN
             /\ ev'.forced <=> processes[i].child
             /\ ev'.res = "ok" => processes' = [processes EXCEPT ![i] = NoRec]
             /\ ev'.res # "ok" => ev'.res = "KillFailed" /\ processes' = processes
             /\ wlock = 0 /\ UNCHANGED <<wlock, pc>>]_vars

C14_Witness == ev.fn = "kill" /\ ev.forced /\ ev.res = "ok" /\ ~processes[ev.id].present

\* ---- C15 ---------------------------------------------------------------
\* C15: register_installing(id) and start(id) return AlreadyActive when id
\* has a record of either kind, and leave that record as it is; a new record
\* is put only where there was none.
C15_OneRecordPerId ==
    [][/\ (Ret("register_installing") \/ Ret("start")) /\ processes[ev'.id].present
            => ev'.res = "AlreadyActive" /\ processes' = processes
       /\ \A i \in Ids :
            processes'[i] # processes[i] /\ processes'[i] \in {Virtual, Spawned}
               => ~processes[i].present]_vars

C15_Witness == ev.fn = "start" /\ ev.res = "AlreadyActive" /\ processes[ev.id] = Virtual

\* ---- C16 ---------------------------------------------------------------
\* C16: when is_running(id) returns true, id has a record that is virtual or
\* whose process has not exited; the only change is_running makes to the
\* table is to remove the record of id when its process has exited, and it
\* then returns false.
C16_NoStalePositive ==
    [][Ret("is_running")
          => LET r == processes[ev'.id] IN
             /\ ev'.res = "true" => r.present /\ (~r.child \/ r.alive)
             /\ processes' # processes
                   => /\ r.child /\ ~r.alive /\ ev'.res = "false"
                      /\ processes' = [processes EXCEPT ![ev'.id] = NoRec]]_vars

C16_Witness ==
    /\ ev.fn = "is_running" /\ ev.res = "true"
    /\ processes[ev.id].child /\ processes[ev.id].alive
    /\ \E j \in Ids : processes[j].child /\ ~processes[j].alive

\* ---- C17 ---------------------------------------------------------------
\* C17: the remove(id) an installation job ends with never takes a record
\* that holds a process handle out of the table.
C17_RemoveOnlyVirtual ==
    [][Ret("remove") => ~processes[ev'.id].child]_vars

\* ---- C20 ---------------------------------------------------------------
\* C20: a start(id) whose spawn the OS refuses returns SpawnFailed with the
\* table as it was and no record for id in it, so that is_running(id) is
\* false and the next start(id) passes the contains_key check.
C20_SpawnFailedInsertsNothing ==
    [][Ret("start") /\ ev'.res = "SpawnFailed"
          => /\ UNCHANGED <<processes, orphans>>
             /\ ~processes'[ev'.id].present
             /\ wlock' = 0]_vars

C20_Witness ==
    /\ ev.fn = "start" /\ ev.res = "SpawnFailed"
    /\ \E j \in Ids : processes[j].present
\* ---- C11 ---------------------------------------------------------------
\* C11: is_auth_required(id) on a tracked record returns true when the flag
\* is set and there is no credential file; when the flag is set and the file
\* exists it returns false and clears the flag; when the flag is clear it
\* returns false and leaves it clear.
C11_AuthSelfHeal ==
    [][Ret("is_auth_required") /\ processes[ScanId].present
          => /\ auth_required /\ ~auth_file
                => ev'.res = "true" /\ auth_required'
             /\ auth_required /\ auth_file
                => ev'.res = "false" /\ ~auth_required'
             /\ ~auth_required
                => ev'.res = "false" /\ ~auth_required']_vars
\* ---- C18 ---------------------------------------------------------------
\* C18: get_metrics_data(id) returns zeros for an id without record and for
\* a virtual record, the cached values for a record with a handle (zeros
\* until the loop has sampled it), and changes nothing.
C18_GetMetricsNeverFails ==
    [][got_metrics' # got_metrics
          => LET i == got_metrics'.id
                 v == got_metrics'.val IN
             /\ ~processes[i].present => v = Zero
             /\ processes[i].present /\ ~processes[i].child => v = Zero
             /\ processes[i].child => v = cache[i]
             /\ UNCHANGED <<processes, cache, tick_count>>]_vars

\* A sampled record has been read, and an id without record whose last
\* record had been sampled.
C18_Witness ==
    /\ got_metrics.id \in Ids
    /\ got_metrics.val # Zero
    /\ got_metrics.val.disk # got_metrics.val.cpu
    /\ \E j \in Ids : ~processes[j].present /\ cache[j] # Zero
\* ---- C19 ---------------------------------------------------------------
\* C19: of two lines of the stream that a receiver has both received, it
\* received first the one that was read first (line n is the n-th line read;
\* status messages are not lines), lag or no lag.
C19_StreamOrderKept ==
    \A r \in 1..Len(rx) :
        \A a \in 1..Len(rx[r].got), b \in 1..Len(rx[r].got) :
            a < b /\ rx[r].got[a] >= 1 /\ rx[r].got[b] >= 1
               => rx[r].got[a] < rx[r].got[b]

\* A receiver that has lost messages to lag has received several lines.
C19_Witness ==
    \E r \in 1..Len(rx) :
        /\ rx[r].lag > 0
        /\ Cardinality({a \in 1..Len(rx[r].got) : rx[r].got[a] >= 1}) >= 2
\* ---- C21 ---------------------------------------------------------------
\* C21: on every line the stdout thread processes, each of the join, leave,
\* ready and authentication-prompt matchers whose pattern matches the line
\* applies its effect (insert, remove, running status, flag), whatever the
\* other matchers do.  Stated for a manager without database pool.
C21_MatchersIndependent ==
    ~pool /\ did.by = "out" /\ did.at = "line"
       => /\ "join" \in did.hits => Has(did.steps, "insert")
          /\ "leave" \in did.hits => Has(did.steps, "remove")
          /\ "ready" \in did.hits => Has(did.steps, "running")
          /\ "auth" \in did.hits => Has(did.steps, "auth")
\* ---- C22 ---------------------------------------------------------------
\* C22: a reader thread reads for the whole life of its stream: its loop is
\* over, and the stopped status is published, only when the stream is at its
\* end; a line that cannot be decoded does not end it.
C22_EndsOnlyAtEof ==
    /\ \A t \in Threads : worker[t] = "ended" => stream[t] = "eof"
    /\ Has(did.steps, "stopped") => stream[did.by] = "eof"
\* ---- C23 ---------------------------------------------------------------
\* C23: the database pool changes nothing to scanning: whatever line the
\* stdout thread has processed, join and leave lines included, it has
\* published the line and it goes on reading, with a pool as without.
C23_PoolDoesNotAffectScanning ==
    /\ worker["out"] # "panicked"
    /\ did.by = "out" /\ did.at = "line" => Has(did.steps, "line")
\* ---- C26 ---------------------------------------------------------------
\* C26: at the end of its stream a reader thread, the stdout one and the
\* stderr one alike, publishes the stopped status and appends the closing
\* marker to the log file before it terminates.  Stated for an open log file.
C26_BothWorkersAnnounceEof ==
    log_file = "open" /\ did.at = "eof"
       => /\ Has(did.steps, "stopped")
          /\ Has(did.steps, "marker")
          /\ worker[did.by] = "ended"
\* ---- C27 ---------------------------------------------------------------
\* C27: for each line a reader thread first appends it to the file, then
\* publishes it, then runs the matchers: every matcher effect of the line
\* (insert, remove, running status, flag) comes after the publication of the
\* line.  Stated for a manager without database pool whose log file is open.
C27_PublishedBeforeMatched ==
    ~pool /\ log_file = "open" /\ did.at = "line"
       => /\ did.steps[1] = "file"
          /\ did.steps[2] = "line"
          /\ \A k \in 1..Len(did.steps) :
                did.steps[k] \in {"insert", "remove", "running", "auth"} => k > 2
\* ---- C24 ---------------------------------------------------------------
\* C24: while a stop(id1) is in its grace period, calls on another id are
\* answered as if no stop were in progress: is_running of a record that is
\* virtual or whose process lives returns true, and subscribe_logs of a
\* tracked id returns an attached receiver.
C24_OnlyStopWaits ==
    [][\A c \in Clients :
          pc[c] = "stop_sleep" /\ ev' # ev /\ ev'.id # arg[c]
             => /\ ev'.fn = "is_running" /\ processes[ev'.id].present
                   /\ (~processes[ev'.id].child \/ processes[ev'.id].alive)
                   => ev'.res = "true"
                /\ ev'.fn = "subscribe_logs" /\ processes[ev'.id].present
                   => ev'.attached]_vars
\* ---- C25 ---------------------------------------------------------------
\* C25: at any time at most one OS process spawned for an id is alive, and
\* the table holds the record of every live one.
C25_OneLiveProcessWithRecord ==
    \A i \in Ids :
        /\ orphans[i] = 0
        /\ orphans[i] + Dropped(i) <= 1
\* ---- C29 ---------------------------------------------------------------
\* C29: a tick of the metrics loop leaves a record without handle alone (its
\* caches are not written and no metrics message is published for it), so
\* the caches of a virtual record are (0, 0, 0) as long as it is tracked;
\* and a tick inserts no record, removes none, and changes no player set and
\* no authentication flag.
C29_TickSkipsVirtual ==
    /\ [](\A i \in Ids :
            processes[i].present /\ ~processes[i].child => cache[i] = Zero)
    /\ [][tick_count' # tick_count
             => /\ \A i \in Ids :
                     ~processes[i].child
                        => cache'[i] = cache[i] /\ metrics_msg'[i].st # "sent"
                /\ UNCHANGED <<processes, players, auth_required>>]_vars

\* A tick has passed over a virtual record and sampled another record.
C29_Witness ==
    \E i \in Ids, j \in Ids :
        /\ processes[i].present /\ ~processes[i].child
        /\ metrics_msg[i].st = "skipped"
        /\ processes[j].child /\ metrics_msg[j].st = "sent"
\* ---- C30 ---------------------------------------------------------------
\* C30: cpu and memory of a sampled record are refreshed at every tick; at
\* the ticks whose index is a multiple of 15, the first included, its cached
\* disk size is replaced by the measured one and the metrics message carries
\* it; at every other tick the cached disk size is left as it was and the
\* message carries none.
C30_DiskEveryFifteenth ==
    [][tick_count' # tick_count
          => \A i \in Ids :
                metrics_msg'[i].st = "sent"
                   => /\ cache'[i].cpu = metrics_msg'[i].cpu
                      /\ cache'[i].mem = metrics_msg'[i].mem
                      /\ IF tick_count % DiskPeriod = 0
                            THEN /\ metrics_msg'[i].has_disk
                                 /\ cache'[i].disk = metrics_msg'[i].disk
                            ELSE /\ ~metrics_msg'[i].has_disk
                                 /\ cache'[i].disk = cache[i].disk]_vars

\* A record sampled at a disk tick has been sampled again at a later tick
\* that is none, with another reading.
C30_Witness ==
    \E i \in Ids :
        /\ metrics_msg[i].st = "sent" /\ ~metrics_msg[i].has_disk
        /\ cache[i].disk # 0
        /\ cache[i].disk # cache[i].cpu
        /\ tick_count % DiskPeriod # 1
\* ---- C28 ---------------------------------------------------------------
\* C28: an installation job whose register_installing succeeded calls
\* remove(id) in the end, whichever of its commands fail, and then ends; one
\* whose register_installing failed ends having published nothing, removed
\* nothing and left the record of the id as it was.
C28_JobVacatesSlot ==
    /\ \A j \in Installers :
          job[j].pc = "download" ~> (job[j].pc = "ended" /\ job[j].removed = 1)
    /\ [](\A j \in Installers :
            /\ job[j].pc = "ended" => job[j].removed = 1
            /\ job[j].pc = "gave_up" => job[j].sent = 0 /\ job[j].removed = 0)
    /\ [][\A j \in Installers :
             job[j].pc = "register" /\ job'[j].pc = "gave_up"
                => processes[JobId].present /\ UNCHANGED processes]_vars

\* One job has run to its remove after publishing, the other one found the
\* id taken and gave up.
C28_Witness ==
    \E j \in Installers, k \in Installers :
        /\ job[j].pc = "ended" /\ job[j].removed = 1 /\ job[j].sent = 1
        /\ job[k].pc = "gave_up"
\* ---- C31 ---------------------------------------------------------------
\* C31, as the specification states it: a receiver more than the capacity
\* asked for (Capacity) behind gets the lagged signal on its next receive,
\* and after the signal the message it receives next is the newest one.
C31_LagResumesAtNewest ==
    [][\A r \in 1..Len(rx) :
          Len(rx') = Len(rx) /\ rx'[r] # rx[r]
          /\ TailPos(rx[r].ch) - rx[r].next > Capacity
             => /\ rx'[r].lag = rx[r].lag + 1
                /\ rx'[r].next = TailPos(rx[r].ch) - 1]_vars

\* C31, amended: a receiver more than BufCap (the capacity rounded up to a
\* power of two) behind gets one lagged signal, which delivers nothing and
\* moves it to the oldest message still kept, so that it then receives the
\* BufCap newest messages; a receiver that is not that far behind receives
\* the message that follows the last one it received, without signal.
C31_LagResumesAtOldestKept ==
    [][\A r \in 1..Len(rx) :
          Len(rx') = Len(rx) /\ rx'[r] # rx[r] /\ rx'[r].open
             => LET k == rx[r].ch
                    behind == TailPos(k) - rx[r].next IN
                IF behind > BufCap
                   THEN /\ rx'[r].lag = rx[r].lag + 1
                        /\ rx'[r].next = TailPos(k) - BufCap
                        /\ rx'[r].got = rx[r].got
                   ELSE /\ behind > 0
                        /\ rx'[r].lag = rx[r].lag
                        /\ rx'[r].next = rx[r].next + 1
                        /\ rx'[r].got = Append(rx[r].got, chan[k].sent[rx[r].next + 1])]_vars

\* A receiver has been told of a gap once and has then received every
\* message that was still kept.
C31_Witness ==
    \E r \in 1..Len(rx) :
        /\ rx[r].lag = 1
        /\ rx[r].ch # 0
        /\ rx[r].next = TailPos(rx[r].ch)
        /\ Len(rx[r].got) >= BufCap
\* ---- C32 ---------------------------------------------------------------
\* C32: the receiver subscribe_logs returns for an id it finds no record of
\* stays open: a receive on it is pending and never reports Closed.
C32_InertStaysOpen ==
    \A r \in 1..Len(rx) :
        rx[r].ch = 0 => rx[r].open /\ recv(r) = "Pending"
\* ---- C34 ---------------------------------------------------------------
\* C34: of two stop(id) calls in progress together on a tracked id, the one
\* that holds the table through the grace period returns success with the
\* record removed, so that the one that waited for it finds no record.
C34_ConcurrentStopsSerialized ==
    [][\A c \in Clients, d \in Clients :
          /\ c # d
          /\ pc[c] = "stop_sleep" /\ op[c] = "stop"
          /\ pc[d] = "wait" /\ op[d] = "stop" /\ arg[d] = arg[c]
          /\ pc'[c] = "idle"
          => ev'.res = "ok" /\ ~processes'[arg[c]].present]_vars
\* ---- C36 ---------------------------------------------------------------
\* C36: a record never changes between virtual and having a handle: as long
\* as an id keeps a record from one step to the next, the record has a
\* handle after the step exactly when it had one before; a handle for an id
\* that was installing comes with the record a later start inserts.
C36_HandleFixedAtCreation ==
    [][\A i \in Ids :
          processes[i].present /\ processes'[i].present
             => processes'[i].child = processes[i].child]_vars

\* A start has inserted a record with a handle for an id whose installation
\* job is still under way, its virtual record having been removed.
C36_Witness ==
    /\ ev.fn = "start" /\ ev.res = "ok"
    /\ jobs[ev.id] > 0
    /\ processes[ev.id].child
\* ---- C37 ---------------------------------------------------------------
\* C37: when the log file could not be opened by start, or the writes to it
\* fail, a reader thread still publishes every line it reads, runs it
\* through its matchers and goes on reading, as it does with a working file
\* (the lines at which a thread with a database pool dies are left aside).
C37_LogFileFailuresHarmless ==
    (/\ log_file # "open" /\ did.at = "line"
     /\ ~(pool /\ did.by = "out" /\ did.hits \cap {"join", "leave"} # {}))
       => /\ Has(did.steps, "line")
          /\ worker[did.by] = "reading"
          /\ "auth" \in did.hits => Has(did.steps, "auth")
          /\ did.by = "out"
                => /\ "join" \in did.hits => Has(did.steps, "insert")
                   /\ "leave" \in did.hits /\ "join" \notin did.hits
                         => Has(did.steps, "remove")
                   /\ "ready" \in did.hits /\ did.hits \cap {"join", "leave"} = {}
                         => Has(did.steps, "running")

\* A join line has been read, matched and published although its write to
\* the log file failed.
C37_Witness ==
    /\ log_file = "failing"
    /\ did.by = "out" /\ did.at = "line"
    /\ Has(did.steps, "write_failed")
    /\ Has(did.steps, "insert") /\ Has(did.steps, "line")
    /\ players # {}
\* ---- C33 ---------------------------------------------------------------
\* C33: for an id that has a record, whoever holds the table, is_installing
\* returns true exactly when the record is virtual and
\* get_server_started_at returns the record's timestamp.  (The third query
\* of the claim, is_auth_required, is the subject of C11.)
C33_QueriesSeeTheRecord ==
    [][/\ Ret("is_installing") /\ processes[ev'.id].present
             => (ev'.res = "true" <=> ~processes[ev'.id].child)
       /\ Ret("get_server_started_at") /\ processes[ev'.id].present
             => ev'.res = "Some"]_vars
C35_ScannerNeverRemoves ==
    [][/\ did' # did
             => /\ UNCHANGED <<processes, orphans, cache>>
                /\ did'.at # "line" => UNCHANGED <<players, auth_required>>
       /\ processes[ScanId].present /\ ~processes'[ScanId].present
             => /\ ev' # ev
                /\ ev'.fn \in {"is_running", "stop", "kill", "remove"}
                /\ ev'.id = ScanId]_vars

\* The process has exited by itself and both streams have ended, and the
\* record is still in the table with the players and the flag last written.
C35_Witness ==
    /\ processes[ScanId].present /\ ~processes[ScanId].alive
    /\ \A t \in Threads : stream[t] = "eof" /\ worker[t] = "ended"
    /\ players # {}
    /\ auth_required
    /\ ev = NoEv
====
